---- MODULE Spec2Model ----
(***************************************************************************)
(* beesting: a tree-walking evaluator for a small Lisp.                    *)
(*                                                                         *)
(* The evaluator (src/src/eval.rs) is modelled as a stack machine: every   *)
(* element of `stack` is one active invocation of `eval`, holding the      *)
(* loop's current (ast, env) pair and, in `k`, the place inside eval_list  *)
(* where that invocation waits for a nested `eval` to return.  The number  *)
(* of frames is the host recursion depth of eval.  Environments and atom   *)
(* cells (Rc<RefCell<..>>) live in two heaps addressed by index.           *)
(***************************************************************************)
EXTENDS Integers, Sequences, FiniteSets, TLC

VARIABLES
    forms,    \* the top-level forms the driver feeds to eval, in order
    pc,       \* index of the form being evaluated (or next to be)
    stack,    \* active eval invocations, outermost first
    ret,      \* the Result a returning eval hands to its caller, or NoRet
    envs,     \* heap of Environment { values, parent }, root is RootEnv
    atoms,    \* heap of atom cells (RefCell<Ast>)
    out,      \* what the driver printed: one Result per finished form
    aborted,  \* TRUE once a panic has unwound the process
    rd_value, \* the reader's run: the Ast whose Debug text is read back, or NoValue
    rd_text,  \* the text handed to tokenize
    rd_i,     \* tokenize's position in the text: the index of the next character
    rd_state, \* tokenize's TokenizerState
    rd_parsed,\* the Result of parse_any on the tokens, or NoRet
    rpc       \* where the reader's run stands

(* the evaluator's variables and the reader's *)
evaluator == <<forms, pc, stack, ret, envs, atoms, out, aborted>>

reader == <<rd_value, rd_text, rd_i, rd_state, rd_parsed, rpc>>

vars == <<forms, pc, stack, ret, envs, atoms, out, aborted,
          rd_value, rd_text, rd_i, rd_state, rd_parsed, rpc>>

-----------------------------------------------------------------------------
(* parser.rs: enum Ast.  Strings are sequences of one-character strings,   *)
(* symbol names are TLA+ strings.  A Function holds the index of its       *)
(* captured environment, an Atom the index of its shared cell, a Builtin   *)
(* its registered name (which also identifies the function pointer).       *)

Symbol(s) == [tag |-> "Symbol", s |-> s]

Integer(n) == [tag |-> "Integer", n |-> n]

Boolean(b) == [tag |-> "Boolean", b |-> b]

String(str) == [tag |-> "String", str |-> str]

List(xs) == [tag |-> "List", xs |-> xs]

Function(params, body, env) ==
    [tag |-> "Function", params |-> params, body |-> body, env |-> env]

Builtin(name) == [tag |-> "Builtin", name |-> name]

Nil == [tag |-> "Nil"]

Atom(cell) == [tag |-> "Atom", cell |-> cell]

(* mem::discriminant of an Ast *)
discriminant(a) == a.tag

-----------------------------------------------------------------------------
(* Result<Ast, ReplError> and the errors of errors.rs / parser.rs          *)

Ok(v) == [tag |-> "Ok", v |-> v]

Err(e) == [tag |-> "Err", e |-> e]

Panic == [tag |-> "Panic"]

NoRet == [tag |-> "NoRet"]

SymbolUndefined(s) == [err |-> "SymbolUndefined", name |-> s]

ExpectedSymbol == [err |-> "ExpectedSymbol"]

TypeMismatch(fn_name, pos, expected, got) ==
    [err |-> "TypeMismatch", fn_name |-> fn_name, pos |-> pos,
     expected |-> expected, got |-> got]

ExpectedGot(pos, expected, actual) ==
    [err |-> "ExpectedGot", pos |-> pos, expected |-> expected, actual |-> actual]

ExpectedGotEof(expected) == [err |-> "ExpectedGotEof", expected |-> expected]

ExpectedAnyGotEof == [err |-> "ExpectedAnyGotEof"]

-----------------------------------------------------------------------------
(* Vec helpers *)

Last(s) == s[Len(s)]

Front(s) == SubSeq(s, 1, Len(s) - 1)

(* HashMap::insert *)
insert(m, key, v) == [x \in (DOMAIN m) \cup {key} |-> IF x = key THEN v ELSE m[x]]

EmptyMap == [x \in {} |-> Nil]

-----------------------------------------------------------------------------
(* root_env.rs: Environment, lookup, get_root                              *)

NoParent == 0

RootEnv == 1

Environment(values, parent) == [values |-> values, parent |-> parent]

(* a lookup in which the outermost frame that binds the name wins *)
RECURSIVE lookup_outer(_, _, _)
lookup_outer(symbol, env, heap) ==
    LET up == IF heap[env].parent = NoParent
              THEN Err(SymbolUndefined(symbol))
              ELSE lookup_outer(symbol, heap[env].parent, heap)
    IN IF up.tag = "Ok"
       THEN up
       ELSE IF symbol \in DOMAIN heap[env].values
            THEN Ok(heap[env].values[symbol])
            ELSE up

RECURSIVE lookup(_, _, _)
lookup(symbol, env, heap) ==
    IF symbol \in DOMAIN heap[env].values
    THEN Ok(heap[env].values[symbol])
    ELSE IF heap[env].parent = NoParent
         THEN Err(SymbolUndefined(symbol))
         ELSE lookup(symbol, heap[env].parent, heap)

(* get_root handing back the environment it was given *)
get_root_self(env, heap) == env

RECURSIVE get_root(_, _)
get_root(env, heap) ==
    IF heap[env].parent = NoParent THEN env ELSE get_root(heap[env].parent, heap)

BuiltinNames ==
    {"+", "-", "*", "/", "prn", "=", "<", "list", "list?", "empty?", "count",
     "str", "slurp", "read-str", "atom", "atom?", "deref", "reset!", "swap!"}

create_root_env == Environment([n \in BuiltinNames |-> Builtin(n)], NoParent)

-----------------------------------------------------------------------------
(* parser.rs: tokenizer.  Text is a sequence of one-character strings;     *)
(* every character of the model's alphabet is one byte, so the byte offset *)
(* of text[i] is i - 1.                                                    *)

LeftParen == [tok |-> "LeftParen"]

RightParen == [tok |-> "RightParen"]

TokSymbol(s) == [tok |-> "Symbol", s |-> s]

TokInteger(n) == [tok |-> "Integer", n |-> n]

TokString(str) == [tok |-> "String", str |-> str]

(* impl PartialEq for Token: only the discriminants are compared *)
token_eq(a, b) == a.tok = b.tok

Whitespace == {" ", "\t", "\n", "\r"}

Digits == {"0", "1", "2", "3", "4", "5", "6", "7", "8", "9"}

DigitVal(c) ==
    CASE c = "0" -> 0 [] c = "1" -> 1 [] c = "2" -> 2 [] c = "3" -> 3
      [] c = "4" -> 4 [] c = "5" -> 5 [] c = "6" -> 6 [] c = "7" -> 7
      [] c = "8" -> 8 [] c = "9" -> 9

(* String built from its characters *)
RECURSIVE Str(_)
Str(chars) == IF chars = <<>> THEN "" ELSE Head(chars) \o Str(Tail(chars))

RECURSIVE DecimalValue(_)
DecimalValue(ds) ==
    IF ds = <<>> THEN 0 ELSE DecimalValue(Front(ds)) * 10 + DigitVal(Last(ds))

(* str::parse::<i64>: optional sign, at least one digit, digits only.  The  *)
(* texts of the model are far too short to leave the range of i64.         *)
parse_i64(token) ==
    LET signed == token # <<>> /\ Head(token) \in {"+", "-"}
        ds == IF signed THEN Tail(token) ELSE token
        n == IF signed /\ Head(token) = "-" THEN 0 - DecimalValue(ds) ELSE DecimalValue(ds)
    IN IF ds # <<>> /\ (\A i \in 1..Len(ds) : ds[i] \in Digits)
       THEN Ok(n)
       ELSE Err("ParseIntError")

get_token(token, is_str) ==
    IF is_str
    THEN TokString(token)
    ELSE LET r == parse_i64(token)
         IN IF r.tag = "Ok" THEN TokInteger(r.v) ELSE TokSymbol(Str(token))

TokenizerState(tokens, buffer, quoting) ==
    [tokens |-> tokens, buffer |-> buffer, quoting |-> quoting]

push_buffer(state, index, treat_as_str) ==
    IF state.buffer # <<>>
    THEN TokenizerState(
             Append(state.tokens,
                    <<index - Len(state.buffer), get_token(state.buffer, treat_as_str)>>),
             <<>>, state.quoting)
    ELSE state

(* try_push returns the new state and whether the caller may push its token *)
try_push(state, c, index) ==
    IF state.quoting
    THEN [state |-> TokenizerState(state.tokens, Append(state.buffer, c), TRUE),
          pushed |-> FALSE]
    ELSE [state |-> push_buffer(state, index, FALSE), pushed |-> TRUE]

try_push_with(state, c, index, with) ==
    LET r == try_push(state, c, index)
    IN IF r.pushed
       THEN TokenizerState(Append(r.state.tokens, <<index, with>>),
                           r.state.buffer, r.state.quoting)
       ELSE r.state

(* one iteration of tokenize's loop over char_indices *)
tokenize_char(state, c, i) ==
    CASE c = "'" ->
           LET s1 == push_buffer(state, i, state.quoting)
           IN TokenizerState(s1.tokens, s1.buffer, ~state.quoting)
      [] c = "(" -> try_push_with(state, c, i, LeftParen)
      [] c = ")" -> try_push_with(state, c, i, RightParen)
      [] OTHER ->
           IF c \in Whitespace
           THEN try_push(state, c, i).state
           ELSE TokenizerState(state.tokens, Append(state.buffer, c), state.quoting)

RECURSIVE tokenize_loop(_, _, _)
tokenize_loop(text, i, state) ==
    IF i > Len(text)
    THEN state
    ELSE tokenize_loop(text, i + 1, tokenize_char(state, text[i], i - 1))

tokenize(text) ==
    push_buffer(tokenize_loop(text, 1, TokenizerState(<<>>, <<>>, FALSE)),
                Len(text), FALSE).tokens

(* str::trim *)
RECURSIVE trim_start(_)
trim_start(s) ==
    IF s # <<>> /\ Head(s) \in Whitespace THEN trim_start(Tail(s)) ELSE s

RECURSIVE trim_end(_)
trim_end(s) ==
    IF s # <<>> /\ Last(s) \in Whitespace THEN trim_end(Front(s)) ELSE s

trim(s) == trim_end(trim_start(s))

-----------------------------------------------------------------------------
(* parser.rs: recursive-descent parser.  The Peekable iterator is the pair *)
(* (tokens, p), p the index of the next token; a parse result carries the  *)
(* iterator position after it.                                             *)

Parsed(v, p) == [tag |-> "Ok", v |-> v, p |-> p]

translate_symbol(symbol) ==
    CASE symbol = "true" -> Boolean(TRUE)
      [] symbol = "false" -> Boolean(FALSE)
      [] symbol = "nil" -> Nil
      [] OTHER -> Symbol(symbol)

expect(tokens, p, expected) ==
    IF p > Len(tokens)
    THEN Err(ExpectedGotEof(expected))
    ELSE IF token_eq(tokens[p][2], expected)
         THEN Parsed(Nil, p + 1)
         ELSE Err(ExpectedGot(tokens[p][1], expected, tokens[p][2]))

parse_atom(tokens, p) ==
    IF p > Len(tokens)
    THEN Err(ExpectedAnyGotEof)
    ELSE LET atom == tokens[p][2]
         IN CASE atom.tok = "LeftParen" -> Panic
              [] atom.tok = "RightParen" -> Panic
              [] atom.tok = "Symbol" -> Parsed(translate_symbol(atom.s), p + 1)
              [] atom.tok = "Integer" -> Parsed(Integer(atom.n), p + 1)
              [] atom.tok = "String" -> Parsed(String(atom.str), p + 1)

RECURSIVE parse_any(_, _)
RECURSIVE parse_list_items(_, _, _)
(* the while loop of parse_list and the closing expect *)
parse_list_items(tokens, p, items) ==
    IF p > Len(tokens)
    THEN Err(ExpectedAnyGotEof)
    ELSE IF token_eq(tokens[p][2], RightParen)
         THEN LET e == expect(tokens, p, RightParen)
              IN IF e.tag = "Ok" THEN Parsed(List(items), e.p) ELSE e
         ELSE LET r == parse_any(tokens, p)
              IN IF r.tag = "Ok"
                 THEN parse_list_items(tokens, r.p, Append(items, r.v))
                 ELSE r

parse_list(tokens, p) ==
    LET e == expect(tokens, p, LeftParen)
    IN IF e.tag = "Ok" THEN parse_list_items(tokens, e.p, <<>>) ELSE e

parse_any(tokens, p) ==
    IF p > Len(tokens)
    THEN Err(ExpectedAnyGotEof)
    ELSE IF token_eq(tokens[p][2], LeftParen)
         THEN parse_list(tokens, p)
         ELSE parse_atom(tokens, p)

(* impl FromStr for Ast: one form, trailing tokens ignored *)
from_str(s) ==
    LET r == parse_any(tokenize(trim(s)), 1)
    IN IF r.tag = "Ok" THEN Ok(r.v) ELSE r

-----------------------------------------------------------------------------
(* parser.rs: impl Debug for Ast, the text `{:?}` writes.  The enum of     *)
(* parser.rs has no Atom variant, so there is no arm for it.               *)

(* the characters of a symbol name *)
chars(s) == [k \in 1..Len(s) |-> SubSeq(s, k, k)]

DigitChar(d) == chars("0123456789")[d + 1]

RECURSIVE fmt_digits(_)
fmt_digits(n) ==
    IF n < 10 THEN <<DigitChar(n)>> ELSE Append(fmt_digits(n \div 10), DigitChar(n % 10))

(* `{}` of an i64 *)
fmt_i64(n) == IF n < 0 THEN <<"-">> \o fmt_digits(0 - n) ELSE fmt_digits(n)

RECURSIVE fmt(_)
RECURSIVE fmt_vec(_, _)
(* `{:?}` of a Vec<Ast> from element k on: the elements separated by ", " *)
fmt_vec(xs, k) ==
    IF k > Len(xs)
    THEN <<>>
    ELSE (IF k > 1 THEN <<",", " ">> ELSE <<>>) \o fmt(xs[k]) \o fmt_vec(xs, k + 1)

fmt(ast) ==
    CASE ast.tag = "Integer" -> fmt_i64(ast.n)
      [] ast.tag = "String" -> ast.str
      [] ast.tag = "Function" -> chars("<function>")
      [] ast.tag = "Builtin" -> chars("<builtin:") \o chars(ast.name) \o <<">">>
      [] ast.tag = "List" -> <<"[">> \o fmt_vec(ast.xs, 1) \o <<"]">>
      [] ast.tag = "Symbol" -> chars(ast.s)
      [] ast.tag = "Boolean" -> IF ast.b THEN chars("true") ELSE chars("false")
      [] ast.tag = "Nil" -> chars("nil")

-----------------------------------------------------------------------------
(* root_env.rs: helper functions and the standard library.  A builtin      *)
(* takes its registered name and the evaluated arguments; Vec::pop on an   *)
(* empty vector followed by unwrap panics.                                 *)

get_int(ast, pos, fn_name) ==
    IF ast.tag = "Integer" THEN Ok(ast.n) ELSE Err(TypeMismatch(fn_name, pos, "Integer", ast))

get_str(ast, pos, fn_name) ==
    IF ast.tag = "String" THEN Ok(ast.str) ELSE Err(TypeMismatch(fn_name, pos, "String", ast))

get_atom(ast, pos, fn_name) ==
    IF ast.tag = "Atom" THEN Ok(ast.cell) ELSE Err(TypeMismatch(fn_name, pos, "Atom", ast))

get_fun(ast, pos, fn_name) ==
    IF ast.tag = "Function" THEN Ok(ast) ELSE Err(TypeMismatch(fn_name, pos, "Function", ast))

(* the common start of add, sub, mult, div: b is popped and checked first, *)
(* then a                                                                  *)
int_operands(name, args) ==
    IF Len(args) < 1
    THEN Panic
    ELSE LET b == get_int(Last(args), 2, name)
         IN IF b.tag = "Err"
            THEN b
            ELSE IF Len(args) < 2
                 THEN Panic
                 ELSE LET a == get_int(args[Len(args) - 1], 1, name)
                      IN IF a.tag = "Err" THEN a ELSE Ok([a |-> a.v, b |-> b.v])

add(name, args) ==
    LET r == int_operands(name, args)
    IN IF r.tag = "Ok" THEN Ok(Integer(r.v.a + r.v.b)) ELSE r

sub(name, args) ==
    LET r == int_operands(name, args)
    IN IF r.tag = "Ok" THEN Ok(Integer(r.v.a - r.v.b)) ELSE r

mult(name, args) ==
    LET r == int_operands(name, args)
    IN IF r.tag = "Ok" THEN Ok(Integer(r.v.a * r.v.b)) ELSE r

(* i64 division truncates toward zero and panics on a zero divisor *)
trunc_div(a, b) ==
    LET abs(x) == IF x < 0 THEN 0 - x ELSE x
        q == abs(a) \div abs(b)
    IN IF (a < 0) = (b < 0) THEN q ELSE 0 - q

div(name, args) ==
    LET r == int_operands(name, args)
    IN IF r.tag # "Ok"
       THEN r
       ELSE IF r.v.b = 0 THEN Panic ELSE Ok(Integer(trunc_div(r.v.a, r.v.b)))

prn(name, args) == IF Len(args) < 1 THEN Panic ELSE Ok(Nil)

op_eq(name, args) ==
    IF Len(args) < 2
    THEN Panic
    ELSE LET b == Last(args)
             a == args[Len(args) - 1]
         IN IF discriminant(a) # discriminant(b)
            THEN Ok(Boolean(FALSE))
            ELSE CASE a.tag = "Integer" -> Ok(Boolean(a.n = b.n))
                   [] a.tag = "Boolean" -> Ok(Boolean(a.b = b.b))
                   [] OTHER -> Ok(Boolean(FALSE))

op_lt(name, args) ==
    IF Len(args) < 2
    THEN Panic
    ELSE LET b == Last(args)
             a == args[Len(args) - 1]
         IN IF discriminant(a) # discriminant(b)
            THEN Ok(Boolean(FALSE))
            ELSE CASE a.tag = "Integer" -> Ok(Boolean(a.n < b.n))
                   [] OTHER -> Ok(Boolean(FALSE))

list(name, args) == Ok(List(args))

list_q(name, args) ==
    IF Len(args) < 1 THEN Panic ELSE Ok(Boolean(Last(args).tag = "List"))

empty_q(name, args) ==
    IF Len(args) < 1
    THEN Panic
    ELSE Ok(Boolean(Last(args).tag = "List" /\ Last(args).xs = <<>>))

count(name, args) ==
    IF Len(args) < 1
    THEN Panic
    ELSE Ok(Integer(IF Last(args).tag = "List" THEN Len(Last(args).xs) ELSE 0))

RECURSIVE concat_str_loop(_, _, _, _)
concat_str_loop(name, args, i, str) ==
    IF i > Len(args)
    THEN Ok(String(str))
    ELSE LET r == get_str(args[i], i, name)
         IN IF r.tag = "Err" THEN r ELSE concat_str_loop(name, args, i + 1, str \o r.v)

concat_str(name, args) == concat_str_loop(name, args, 1, <<>>)

(* no file exists in the modelled file system: read_to_string fails *)
slurp(name, args) ==
    IF Len(args) < 1
    THEN Panic
    ELSE LET file_name == get_str(Last(args), 1, name)
         IN IF file_name.tag = "Err" THEN file_name ELSE Err([err |-> "IoError"])

read_str(name, args) ==
    IF Len(args) < 1
    THEN Panic
    ELSE LET a == get_str(Last(args), 1, name)
         IN IF a.tag = "Err" THEN a ELSE from_str(a.v)

(* Atom builtins read or write the heap of cells: they return the result   *)
(* and the heap after the call.                                            *)
Effect(r, cells) == [r |-> r, cells |-> cells]

atom(name, args, cells) ==
    IF Len(args) < 1
    THEN Effect(Panic, cells)
    ELSE Effect(Ok(Atom(Len(cells) + 1)), Append(cells, Last(args)))

atom_q(name, args) ==
    IF Len(args) < 1 THEN Panic ELSE Ok(Boolean(Last(args).tag = "Atom"))

deref(name, args, cells) ==
    IF Len(args) < 1
    THEN Panic
    ELSE IF Last(args).tag = "Atom" THEN Ok(cells[Last(args).cell]) ELSE Panic

(* reset! returning the value without storing it *)
reset_m_lost(name, args, cells) ==
    IF Len(args) < 2 THEN Effect(Panic, cells) ELSE Effect(Ok(Last(args)), cells)

reset_m(name, args, cells) ==
    IF Len(args) < 2
    THEN Effect(Panic, cells)
    ELSE LET val == Last(args)
             a == args[Len(args) - 1]
         IN IF a.tag = "Atom"
            THEN Effect(Ok(val), [cells EXCEPT ![a.cell] = val])
            ELSE Effect(Panic, cells)

(* every builtin but swap!, which re-enters eval (see swap_m below) *)
call_builtin(name, args, cells) ==
    CASE name = "+" -> Effect(add(name, args), cells)
      [] name = "-" -> Effect(sub(name, args), cells)
      [] name = "*" -> Effect(mult(name, args), cells)
      [] name = "/" -> Effect(div(name, args), cells)
      [] name = "prn" -> Effect(prn(name, args), cells)
      [] name = "=" -> Effect(op_eq(name, args), cells)
      [] name = "<" -> Effect(op_lt(name, args), cells)
      [] name = "list" -> Effect(list(name, args), cells)
      [] name = "list?" -> Effect(list_q(name, args), cells)
      [] name = "empty?" -> Effect(empty_q(name, args), cells)
      [] name = "count" -> Effect(count(name, args), cells)
      [] name = "str" -> Effect(concat_str(name, args), cells)
      [] name = "slurp" -> Effect(slurp(name, args), cells)
      [] name = "read-str" -> Effect(read_str(name, args), cells)
      [] name = "atom" -> atom(name, args, cells)
      [] name = "atom?" -> Effect(atom_q(name, args), cells)
      [] name = "deref" -> Effect(deref(name, args, cells), cells)
      [] name = "reset!" -> reset_m(name, args, cells)

-----------------------------------------------------------------------------
(* eval.rs: the evaluator.                                                 *)
(*                                                                         *)
(* A frame is one invocation of eval: the loop's (ast, env) and k, where   *)
(* the invocation stands: AtLoop at the head of the loop, or the place in  *)
(* a form handler that waits for the nested eval above it on the stack.    *)

AtLoop == [at |-> "loop"]

Frame(ast, env) == [ast |-> ast, env |-> env, k |-> AtLoop]

Top == stack[Len(stack)]

(* enum EvalBehaviour, plus the two other ways a form handler ends (an Err *)
(* taken by `?`, a panic) and the one way it pauses (a nested eval call).  *)
ReturnImmediately(ast) == [do |-> "ReturnImmediately", ast |-> ast]

LoopWithAst(ast) == [do |-> "LoopWithAst", ast |-> ast]

LoopWithAstAndEnv(ast, env) == [do |-> "LoopWithAstAndEnv", ast |-> ast, env |-> env]

Raise(e) == [do |-> "Raise", e |-> e]

Panicked == [do |-> "Panic"]

Nested(k, ast, env) == [do |-> "Nested", k |-> k, ast |-> ast, env |-> env]

(* a handler's outcome together with the heaps it leaves *)
Step(o, heap, cells) == [o |-> o, envs |-> heap, atoms |-> cells]

(* eval's loop acting on the outcome of eval_list (eval.rs 22-30) *)
Apply(s) ==
    /\ UNCHANGED <<forms, pc, out>>
    /\ UNCHANGED reader
    /\ IF s.o.do = "Panic"
       THEN /\ aborted' = TRUE
            /\ stack' = <<>>
            /\ ret' = NoRet
            /\ UNCHANGED <<envs, atoms>>
       ELSE /\ UNCHANGED aborted
            /\ envs' = s.envs
            /\ atoms' = s.atoms
            /\ CASE s.o.do = "ReturnImmediately" ->
                      stack' = Front(stack) /\ ret' = Ok(s.o.ast)
                 [] s.o.do = "Raise" ->
                      stack' = Front(stack) /\ ret' = Err(s.o.e)
                 [] s.o.do = "LoopWithAst" ->
                      /\ stack' = [stack EXCEPT ![Len(stack)] = Frame(s.o.ast, Top.env)]
                      /\ ret' = NoRet
                 [] s.o.do = "LoopWithAstAndEnv" ->
                      /\ stack' = [stack EXCEPT ![Len(stack)] = Frame(s.o.ast, s.o.env)]
                      /\ ret' = NoRet
                 [] s.o.do = "Nested" ->
                      /\ stack' = Append([stack EXCEPT ![Len(stack)].k = s.o.k],
                                         Frame(s.o.ast, s.o.env))
                      /\ ret' = NoRet

get_symbol_name(ast) ==
    IF ast.tag = "Symbol" THEN Ok(ast.s) ELSE Err(ExpectedSymbol)

RECURSIVE get_symbol_list_loop(_, _, _)
get_symbol_list_loop(xs, i, result) ==
    IF i > Len(xs)
    THEN Ok(result)
    ELSE LET r == get_symbol_name(xs[i])
         IN IF r.tag = "Err" THEN r ELSE get_symbol_list_loop(xs, i + 1, Append(result, r.v))

get_symbol_list(ast) ==
    IF ast.tag = "List" THEN get_symbol_list_loop(ast.xs, 1, <<>>) ELSE Panic

(* a call frame in which a parameter without an argument is bound to Nil *)
bind_fn_nil(params, args, env) ==
    Environment([p \in {params[k] : k \in 1..Len(params)} |->
                    LET k == CHOOSE k \in 1..Len(params) : params[k] = p
                    IN IF k <= Len(args) THEN args[k] ELSE Nil],
                env)

(* bind_fn: zip(params, args) inserted in order into a frame under env *)
RECURSIVE bind_fn_values(_, _, _, _)
bind_fn_values(params, args, i, values) ==
    IF i > Len(params) \/ i > Len(args)
    THEN values
    ELSE bind_fn_values(params, args, i + 1, insert(values, params[i], args[i]))

bind_fn(params, args, env) ==
    Environment(bind_fn_values(params, args, 1, EmptyMap), env)

SpecialForms == {"def!", "let*", "letrec", "do", "if", "fun*", "eval"}

(* the top frame is at the head of eval's loop *)
Dispatching == ~aborted /\ stack # <<>> /\ ret = NoRet /\ Top.k = AtLoop

(* the top frame's ast is a non-empty list headed by the symbol `name` *)
AtForm(name) ==
    /\ Dispatching
    /\ Top.ast.tag = "List"
    /\ Top.ast.xs # <<>>
    /\ Top.ast.xs[1] = Symbol(name)

(* a nested eval has returned Ok to the top frame, which waits at `at` *)
Resuming(at) == ~aborted /\ stack # <<>> /\ ret.tag = "Ok" /\ Top.k.at = at

-----------------------------------------------------------------------------
(* eval: the self-evaluating arms and the symbol arm (eval.rs 32-39)       *)

eval_self ==
    /\ Dispatching
    /\ Top.ast.tag \notin {"List", "Symbol"}
    /\ Apply(Step(ReturnImmediately(Top.ast), envs, atoms))

eval_symbol ==
    /\ Dispatching
    /\ Top.ast.tag = "Symbol"
    /\ LET v == lookup(Top.ast.s, Top.env, envs)
       IN Apply(Step(IF v.tag = "Ok" THEN ReturnImmediately(v.v) ELSE Raise(v.e),
                     envs, atoms))

(* eval_list on an empty list: todo!() *)
eval_list_empty ==
    /\ Dispatching
    /\ Top.ast.tag = "List"
    /\ Top.ast.xs = <<>>
    /\ Apply(Step(Panicked, envs, atoms))

-----------------------------------------------------------------------------
(* def! *)

(* def! binding in the root frame *)
def_frame_root(env, heap) == get_root(env, heap)

(* the frame eval_form_def inserts into *)
def_frame(env, heap) == env

eval_form_def ==
    /\ AtForm("def!")
    /\ LET args == Top.ast.xs
           definition == Last(args)
           name == get_symbol_name(args[Len(args) - 1])
       IN Apply(Step(IF Len(args) < 2
                     THEN Panicked
                     ELSE IF name.tag = "Err"
                          THEN Raise(name.e)
                          ELSE Nested([at |-> "eval_form_def", name |-> name.v],
                                      definition, Top.env),
                     envs, atoms))

eval_form_def_insert ==
    /\ Resuming("eval_form_def")
    /\ LET f == def_frame(Top.env, envs)
       IN Apply(Step(ReturnImmediately(ret.v),
                     [envs EXCEPT ![f].values = insert(@, Top.k.name, ret.v)],
                     atoms))

-----------------------------------------------------------------------------
(* let* and letrec *)

(* bind_let evaluating every value in the enclosing environment *)
bind_let_env_outer(rec, n_env, env) == env

(* the environment bind_let evaluates a binding's value in *)
bind_let_env(rec, n_env, env) == IF rec THEN n_env ELSE env

(* bind_let's loop from element i of xs, where a symbol is expected, up to *)
(* the next value to evaluate; the body follows the last binding           *)
bind_let_next(xs, i, n_env, env, rec, expr) ==
    IF i > Len(xs)
    THEN LoopWithAstAndEnv(expr, n_env)
    ELSE LET symbol == get_symbol_name(xs[i])
         IN IF symbol.tag = "Err"
            THEN Raise(symbol.e)
            ELSE IF i + 1 > Len(xs)
                 THEN LoopWithAstAndEnv(expr, n_env)
                 ELSE Nested([at |-> "bind_let", xs |-> xs, i |-> i + 1,
                              symbol |-> symbol.v, n_env |-> n_env, rec |-> rec,
                              expr |-> expr],
                             xs[i + 1], bind_let_env(rec, n_env, env))

(* bind_let up to its first nested eval: the new frame, then the loop *)
bind_let(args, env, rec, heap, cells) ==
    LET expr == Last(args)
        bindings == args[Len(args) - 1]
        n_env == Len(heap) + 1
    IN IF Len(args) < 2
       THEN Step(Panicked, heap, cells)
       ELSE IF bindings.tag # "List"
            THEN Step(Panicked, heap, cells)
            ELSE Step(bind_let_next(bindings.xs, 1, n_env, env, rec, expr),
                      Append(heap, Environment(EmptyMap, env)), cells)

do_form_let ==
    /\ AtForm("let*")
    /\ Apply(bind_let(Top.ast.xs, Top.env, FALSE, envs, atoms))

do_form_letrec ==
    /\ AtForm("letrec")
    /\ Apply(bind_let(Top.ast.xs, Top.env, TRUE, envs, atoms))

bind_let_insert ==
    /\ Resuming("bind_let")
    /\ LET k == Top.k
       IN Apply(Step(bind_let_next(k.xs, k.i + 1, k.n_env, Top.env, k.rec, k.expr),
                     [envs EXCEPT ![k.n_env].values = insert(@, k.symbol, ret.v)],
                     atoms))

-----------------------------------------------------------------------------
(* do *)

(* do_form_do's loop from element i of args (the form without its last     *)
(* element), then the tail position                                        *)
do_form_do_next(args, i, last_maybe, env) ==
    IF i <= Len(args)
    THEN Nested([at |-> "do_form_do", args |-> args, i |-> i, last_maybe |-> last_maybe],
                args[i], env)
    ELSE IF last_maybe # <<>>
         THEN LoopWithAst(last_maybe[1])
         ELSE ReturnImmediately(Nil)

(* args.pop(): an Option, here a sequence of length 0 or 1 *)
pop_maybe(args) == IF args = <<>> THEN <<>> ELSE <<Last(args)>>

(* args.into_iter().skip(1) starts at the second element of what is left *)
do_form_do ==
    /\ AtForm("do")
    /\ Apply(Step(do_form_do_next(Front(Top.ast.xs), 2, pop_maybe(Top.ast.xs), Top.env),
                  envs, atoms))

do_form_do_resume ==
    /\ Resuming("do_form_do")
    /\ Apply(Step(do_form_do_next(Top.k.args, Top.k.i + 1, Top.k.last_maybe, Top.env),
                  envs, atoms))

-----------------------------------------------------------------------------
(* if *)

do_form_if ==
    /\ AtForm("if")
    /\ LET args == Top.ast.xs
       IN Apply(Step(IF Len(args) < 2
                     THEN Panicked
                     ELSE Nested([at |-> "do_form_if",
                                  args |-> <<args[1]>> \o SubSeq(args, 3, Len(args))],
                                 args[2], Top.env),
                     envs, atoms))

(* after the condition: args is the form without its condition *)
do_form_if_select(condition, args) ==
    LET is_true == IF condition.tag = "Boolean" THEN condition.b ELSE TRUE
    IN IF is_true
       THEN IF Len(args) < 2 THEN Panicked ELSE LoopWithAst(args[2])
       ELSE IF Len(args) < 3 THEN Panicked ELSE LoopWithAst(args[3])

do_form_if_resume ==
    /\ Resuming("do_form_if")
    /\ Apply(Step(do_form_if_select(ret.v, Top.k.args), envs, atoms))

-----------------------------------------------------------------------------
(* fun* *)

eval_form_fun ==
    /\ AtForm("fun*")
    /\ LET args == Top.ast.xs
           body == Last(args)
           params == get_symbol_list(args[Len(args) - 1])
       IN Apply(Step(IF Len(args) < 2
                     THEN Panicked
                     ELSE CASE params.tag = "Panic" -> Panicked
                            [] params.tag = "Err" -> Raise(params.e)
                            [] params.tag = "Ok" ->
                                 ReturnImmediately(Function(params.v, body, Top.env)),
                     envs, atoms))

-----------------------------------------------------------------------------
(* eval *)

eval_form_eval ==
    /\ AtForm("eval")
    /\ LET xs == Top.ast.xs
       IN Apply(Step(IF Len(xs) < 2
                     THEN Panicked
                     ELSE Nested([at |-> "eval_form_eval"], xs[2], Top.env),
                     envs, atoms))

eval_form_eval_resume ==
    /\ Resuming("eval_form_eval")
    /\ Apply(Step(LoopWithAstAndEnv(ret.v, get_root(Top.env, envs)), envs, atoms))

-----------------------------------------------------------------------------
(* function call *)

(* the call frame created under the caller's environment *)
call_parent_dynamic(user_fun, env) == env

(* the environment a closure's call frame is created under *)
call_parent(user_fun, env) == user_fun.env

(* the body evaluated by a nested eval whose result is looped on *)
call_function_nested(user_fun, n_env) ==
    Nested([at |-> "eval_form_eval"], user_fun.body, n_env)

(* eval_func_call's Function arm: the body continues eval's loop in the    *)
(* frame n_env that bind_fn built                                          *)
call_function(user_fun, n_env) == LoopWithAstAndEnv(user_fun.body, n_env)

(* a swap_m that takes the contents out of the cell, leaving Nil, before   *)
(* its nested eval of the closure body                                     *)
swap_m_take(name, args, heap, cells) ==
    LET fun == get_fun(Last(args), 2, name)
        a == get_atom(args[Len(args) - 1], 1, name)
        n_env == Len(heap) + 1
    IN IF Len(args) < 1
       THEN Step(Panicked, heap, cells)
       ELSE IF fun.tag = "Err"
            THEN Step(Raise(fun.e), heap, cells)
            ELSE IF Len(args) < 2
                 THEN Step(Panicked, heap, cells)
                 ELSE IF a.tag = "Err"
                      THEN Step(Raise(a.e), heap, cells)
                      ELSE Step(Nested([at |-> "swap_m", atom |-> a.v],
                                       fun.v.body, n_env),
                                Append(heap, bind_fn(fun.v.params, <<cells[a.v]>>,
                                                     fun.v.env)),
                                [cells EXCEPT ![a.v] = Nil])

(* swap_m up to its nested eval of the closure body *)
swap_m(name, args, heap, cells) ==
    LET fun == get_fun(Last(args), 2, name)
        a == get_atom(args[Len(args) - 1], 1, name)
        atom_content == cells[a.v]
        n_env == Len(heap) + 1
    IN IF Len(args) < 1
       THEN Step(Panicked, heap, cells)
       ELSE IF fun.tag = "Err"
            THEN Step(Raise(fun.e), heap, cells)
            ELSE IF Len(args) < 2
                 THEN Step(Panicked, heap, cells)
                 ELSE IF a.tag = "Err"
                      THEN Step(Raise(a.e), heap, cells)
                      ELSE Step(Nested([at |-> "swap_m", atom |-> a.v],
                                       fun.v.body, n_env),
                                Append(heap, bind_fn(fun.v.params, <<atom_content>>,
                                                     fun.v.env)),
                                cells)

(* eval_func_call once the callee and every argument are evaluated *)
eval_func_call_apply(fun, args, env, heap, cells) ==
    CASE fun.tag = "Function" ->
           Step(call_function(fun, Len(heap) + 1),
                Append(heap, bind_fn(fun.params, args, call_parent(fun, env))),
                cells)
      [] fun.tag = "Builtin" ->
           IF fun.name = "swap!"
           THEN swap_m(fun.name, args, heap, cells)
           ELSE LET e == call_builtin(fun.name, args, cells)
                IN (CASE e.r.tag = "Ok" -> Step(ReturnImmediately(e.r.v), heap, e.cells)
                      [] e.r.tag = "Err" -> Step(Raise(e.r.e), heap, e.cells)
                      [] e.r.tag = "Panic" -> Step(Panicked, heap, e.cells))
      [] OTHER -> Step(Panicked, heap, cells)

(* eval_all's loop from element i of xs *)
eval_all_next(fun, xs, i, values, env, heap, cells) ==
    IF i <= Len(xs)
    THEN Step(Nested([at |-> "eval_all", fun |-> fun, xs |-> xs, i |-> i,
                      values |-> values],
                     xs[i], env),
              heap, cells)
    ELSE eval_func_call_apply(fun, values, env, heap, cells)

(* a non-empty list that is no special form *)
eval_func_call ==
    /\ Dispatching
    /\ Top.ast.tag = "List"
    /\ Top.ast.xs # <<>>
    /\ ~(Top.ast.xs[1].tag = "Symbol" /\ Top.ast.xs[1].s \in SpecialForms)
    /\ Apply(Step(Nested([at |-> "eval_func_call", xs |-> Tail(Top.ast.xs)],
                         Top.ast.xs[1], Top.env),
                  envs, atoms))

eval_func_call_fun ==
    /\ Resuming("eval_func_call")
    /\ Apply(eval_all_next(ret.v, Top.k.xs, 1, <<>>, Top.env, envs, atoms))

eval_all ==
    /\ Resuming("eval_all")
    /\ Apply(eval_all_next(Top.k.fun, Top.k.xs, Top.k.i + 1, Append(Top.k.values, ret.v),
                           Top.env, envs, atoms))

swap_m_store ==
    /\ Resuming("swap_m")
    /\ Apply(Step(ReturnImmediately(Atom(Top.k.atom)), envs,
                  [atoms EXCEPT ![Top.k.atom] = ret.v]))

(* the `?` after every nested eval: the waiting invocation returns the Err *)
propagate ==
    /\ ~aborted
    /\ stack # <<>>
    /\ ret.tag = "Err"
    /\ stack' = Front(stack)
    /\ UNCHANGED <<forms, pc, ret, envs, atoms, out, aborted>>
    /\ UNCHANGED reader

-----------------------------------------------------------------------------
(* the driver: evaluates the forms one after the other in the root          *)
(* environment and prints each Result                                      *)

rep ==
    /\ ~aborted
    /\ stack = <<>>
    /\ ret = NoRet
    /\ pc <= Len(forms)
    /\ stack' = <<Frame(forms[pc], RootEnv)>>
    /\ UNCHANGED <<forms, pc, ret, envs, atoms, out, aborted>>
    /\ UNCHANGED reader

main_print ==
    /\ ~aborted
    /\ stack = <<>>
    /\ ret # NoRet
    /\ out' = Append(out, ret)
    /\ ret' = NoRet
    /\ pc' = pc + 1
    /\ UNCHANGED <<forms, stack, envs, atoms, aborted>>
    /\ UNCHANGED reader

-----------------------------------------------------------------------------
(* the reader run on its own: a value is written with `{:?}` and the text  *)
(* read back by from_str, or a text is handed to tokenize as it is.  The    *)
(* loop of tokenize takes one character per step.                          *)

NoValue == [tag |-> "NoValue"]

(* the driver's println!("{:?}", output) *)
fmt_value ==
    /\ rpc = "fmt"
    /\ rd_text' = fmt(rd_value)
    /\ rpc' = "from_str"
    /\ UNCHANGED <<rd_value, rd_i, rd_state, rd_parsed>>
    /\ UNCHANGED evaluator

(* from_str: s.trim() and TokenizerState::default() *)
from_str_trim ==
    /\ rpc = "from_str"
    /\ rd_text' = trim(rd_text)
    /\ rd_i' = 1
    /\ rd_state' = TokenizerState(<<>>, <<>>, FALSE)
    /\ rpc' = "tokenize"
    /\ UNCHANGED <<rd_value, rd_parsed>>
    /\ UNCHANGED evaluator

(* one iteration of `for (i, c) in text.char_indices()` *)
tokenize_step ==
    /\ rpc = "tokenize"
    /\ rd_i <= Len(rd_text)
    /\ rd_state' = tokenize_char(rd_state, rd_text[rd_i], rd_i - 1)
    /\ rd_i' = rd_i + 1
    /\ UNCHANGED <<rd_value, rd_text, rd_parsed, rpc>>
    /\ UNCHANGED evaluator

(* after the loop: state.push_buffer(text.len(), false) *)
tokenize_end ==
    /\ rpc = "tokenize"
    /\ rd_i > Len(rd_text)
    /\ rd_state' = push_buffer(rd_state, Len(rd_text), FALSE)
    /\ rpc' = "parse"
    /\ UNCHANGED <<rd_value, rd_text, rd_i, rd_parsed>>
    /\ UNCHANGED evaluator

(* from_str: parse_any on the tokens *)
from_str_parse ==
    /\ rpc = "parse"
    /\ rd_parsed' = (LET r == parse_any(rd_state.tokens, 1)
                  IN IF r.tag = "Ok" THEN Ok(r.v) ELSE r)
    /\ rpc' = "done"
    /\ UNCHANGED <<rd_value, rd_text, rd_i, rd_state>>
    /\ UNCHANGED evaluator

-----------------------------------------------------------------------------
(* Programs: sequences of top-level forms, written as parsed Asts.         *)

S(name) == Symbol(name)

I(n) == Integer(n)

L(xs) == List(xs)

(* (let* (a 1 b (+ a 1)) b) and a three-binding variant *)
LetStarProgram == <<L(<<S("let*"),
                        L(<<S("a"), I(1), S("b"), L(<<S("+"), S("a"), I(1)>>)>>),
                        S("b")>>)>>

LetStarChainProgram ==
    <<L(<<S("let*"),
          L(<<S("a"), I(1),
              S("b"), L(<<S("+"), S("a"), I(1)>>),
              S("c"), L(<<S("+"), S("b"), S("a")>>)>>),
          S("c")>>)>>

(* the largest argument of the recursive programs *)
MaxN == 3

(* (fun* (n) (if (= n 0) base (self (- n 1)))) *)
CountDown(self, base) ==
    L(<<S("fun*"), L(<<S("n")>>),
        L(<<S("if"), L(<<S("="), S("n"), I(0)>>),
            base,
            L(<<S(self), L(<<S("-"), S("n"), I(1)>>)>>)>>)>>)

(* (letrec (f (fun* (n) (if (= n 0) 1 (f (- n 1))))) (f k)) *)
LetrecProgram(k) ==
    <<L(<<S("letrec"), L(<<S("f"), CountDown("f", I(1))>>), L(<<S("f"), I(k)>>)>>)>>

(* (def! loop (fun* (n) (if (= n 0) 0 (loop (- n 1))))) (loop n) *)
LoopProgram(n) ==
    <<L(<<S("def!"), S("loop"), CountDown("loop", I(0))>>),
      L(<<S("loop"), I(n)>>)>>

(* (letrec (even (fun* (n) (if (= n 0) true (odd (- n 1))))                *)
(*          odd  (fun* (n) (if (= n 0) false (even (- n 1)))))             *)
(*   (even k))                                                             *)
LetrecMutualProgram(k) ==
    <<L(<<S("letrec"),
          L(<<S("even"), CountDown("odd", Boolean(TRUE)),
              S("odd"), CountDown("even", Boolean(FALSE))>>),
          L(<<S("even"), I(k)>>)>>)>>

(* (def! f (let* (x 1) (fun* () x)))  (f)  (def! x 5)  (f)                  *)
(* (let* (x 7) (f))  ((fun* (x) (f)) 9)                                    *)
LexicalProgram ==
    <<L(<<S("def!"), S("f"),
          L(<<S("let*"), L(<<S("x"), I(1)>>), L(<<S("fun*"), L(<<>>), S("x")>>)>>)>>),
      L(<<S("f")>>),
      L(<<S("def!"), S("x"), I(5)>>),
      L(<<S("f")>>),
      L(<<S("let*"), L(<<S("x"), I(7)>>), L(<<S("f")>>)>>),
      L(<<L(<<S("fun*"), L(<<S("x")>>), L(<<S("f")>>)>>), I(9)>>)>>

(* Atom programs: (def! a (atom 5)) (def! b a), then for every operation   *)
(* the operation followed by (deref a); b is a second holder of a's cell.  *)
MaxOps == 2

AtomOps == {"swap_a", "swap_b", "reset_a", "reset_b"}

(* (fun* (x) (op x n)) *)
Fun1(op, n) == L(<<S("fun*"), L(<<S("x")>>), L(<<S(op), S("x"), I(n)>>)>>)

AtomOpForm(op) ==
    CASE op = "swap_a" -> L(<<S("swap!"), S("a"), Fun1("+", 1)>>)
      [] op = "swap_b" -> L(<<S("swap!"), S("b"), Fun1("*", 2)>>)
      [] op = "reset_a" -> L(<<S("reset!"), S("a"), I(0)>>)
      [] op = "reset_b" -> L(<<S("reset!"), S("b"), I(7)>>)

DerefA == L(<<S("deref"), S("a")>>)

RECURSIVE AtomOpForms(_)
AtomOpForms(ops) ==
    IF ops = <<>> THEN <<>> ELSE <<AtomOpForm(Head(ops)), DerefA>> \o AtomOpForms(Tail(ops))

AtomProgram(ops) ==
    <<L(<<S("def!"), S("a"), L(<<S("atom"), I(5)>>)>>),
      L(<<S("def!"), S("b"), S("a")>>)>>
    \o AtomOpForms(ops)

AtomOpSeqs == UNION {[1..n -> AtomOps] : n \in 0..MaxOps}

(* lists that cannot be called, each followed by a second form *)
EmptyListProgram == <<L(<<>>), I(5)>>

NonFunctionProgram == <<L(<<I(1), I(2)>>), I(5)>>

(* (= x y) for operands of every kind the claim names *)
EqOperands ==
    {I(1), I(2), Boolean(TRUE), Boolean(FALSE), String(<<"a">>), String(<<"b">>),
     L(<<S("list")>>), L(<<S("list"), I(1)>>), L(<<S("list"), I(1), I(2)>>),
     L(<<S("list"), L(<<S("list"), I(1)>>)>>)}

EqProgram(x, y) == <<L(<<S("="), x, y>>)>>

(* (def! a (atom 0)) (do e1 .. en) (deref a): ei appends the digit i to the *)
(* number in a, the last one with reset! so that its value is the number   *)
MaxDo == 3

DoStep(i) == L(<<S("swap!"), S("a"),
                 L(<<S("fun*"), L(<<S("x")>>),
                     L(<<S("+"), L(<<S("*"), S("x"), I(10)>>), I(i)>>)>>)>>)

DoLast(i) == L(<<S("reset!"), S("a"),
                 L(<<S("+"), L(<<S("*"), DerefA, I(10)>>), I(i)>>)>>)

DoProgram(n) ==
    <<L(<<S("def!"), S("a"), L(<<S("atom"), I(0)>>)>>),
      L(<<S("do")>> \o [i \in 1..n |-> IF i < n THEN DoStep(i) ELSE DoLast(i)]),
      DerefA>>

(* (def! x 1) (let* (y 2) (def! x 3)) x ((fun* () (def! x 4))) x            *)
(* (letrec (z 0) (def! x 5)) x (def! x 6) x                                *)
DefX(n) == L(<<S("def!"), S("x"), I(n)>>)

DefProgram ==
    <<DefX(1),
      L(<<S("let*"), L(<<S("y"), I(2)>>), DefX(3)>>),
      S("x"),
      L(<<L(<<S("fun*"), L(<<>>), DefX(4)>>)>>),
      S("x"),
      L(<<S("letrec"), L(<<S("z"), I(0)>>), DefX(5)>>),
      S("x"),
      DefX(6),
      S("x")>>

(* (eval (read-str 'name')) *)
EvalSym(name) == L(<<S("eval"), L(<<S("read-str"), String(<<name>>)>>)>>)

(* (def! x 1)  (let* (x 2) (eval (read-str 'x')))                          *)
(* ((fun* (x) (eval (read-str 'x'))) 3)                                    *)
(* (let* (x 2) (let* (z 3) (eval (read-str 'x'))))                         *)
(* (let* (y 4) (eval (read-str 'y')))                                      *)
(* (let* (x 2) (eval (list + x 1)))                                        *)
EvalProgram ==
    <<DefX(1),
      L(<<S("let*"), L(<<S("x"), I(2)>>), EvalSym("x")>>),
      L(<<L(<<S("fun*"), L(<<S("x")>>), EvalSym("x")>>), I(3)>>),
      L(<<S("let*"), L(<<S("x"), I(2)>>),
          L(<<S("let*"), L(<<S("z"), I(3)>>), EvalSym("x")>>)>>),
      L(<<S("let*"), L(<<S("y"), I(4)>>), EvalSym("y")>>),
      L(<<S("let*"), L(<<S("x"), I(2)>>),
          L(<<S("eval"), L(<<S("list"), S("+"), S("x"), I(1)>>)>>)>>)>>

(* the most parameters and arguments of the closure applications *)
MaxArity == 2

ParamName(k) == Str(<<"p">> \o fmt_digits(k))

(* ((fun* (p1 .. pn) pj) 10 20 .. 10*m), after (def! pj 99) when global   *)
(* and after the form 0 otherwise                                          *)
ArityProgram(n, m, j, global) ==
    <<IF global THEN L(<<S("def!"), S(ParamName(j)), I(99)>>) ELSE I(0),
      L(<<L(<<S("fun*"), L([k \in 1..n |-> S(ParamName(k))]), S(ParamName(j))>>)>>
        \o [k \in 1..m |-> I(10 * k)])>>

(* (let* (n1 v1) body) *)
Let1(name, v, body) == L(<<S("let*"), L(<<S(name), v>>), body>>)

(* (def! x 1)  (let* (x 2) (let* (x 3) x))  (let* (x 2) (let* (y 3) x))     *)
(* (let* (y 2) x)  zzz  (let* (x 2) zzz)  ((fun* (x) (let* (y 1) x)) 7)     *)
ShadowProgram ==
    <<DefX(1),
      Let1("x", I(2), Let1("x", I(3), S("x"))),
      Let1("x", I(2), Let1("y", I(3), S("x"))),
      Let1("y", I(2), S("x")),
      S("zzz"),
      Let1("x", I(2), S("zzz")),
      L(<<L(<<S("fun*"), L(<<S("x")>>), Let1("y", I(1), S("x"))>>), I(7)>>)>>

(* closure bodies that fail, the last two after writing the atom a         *)
SwapFailKinds == {"undefined", "type", "reset", "nested"}

(* (+ x zzz)   (+ x 'a')   (do (reset! a 9) zzz)                           *)
(* (do (swap! a (fun* (x) (+ x 1))) (+ x 'a'))                             *)
SwapFailBody(kind) ==
    CASE kind = "undefined" -> L(<<S("+"), S("x"), S("zzz")>>)
      [] kind = "type" -> L(<<S("+"), S("x"), String(<<"a">>)>>)
      [] kind = "reset" -> L(<<S("do"), L(<<S("reset!"), S("a"), I(9)>>), S("zzz")>>)
      [] kind = "nested" -> L(<<S("do"), L(<<S("swap!"), S("a"), Fun1("+", 1)>>),
                                L(<<S("+"), S("x"), String(<<"a">>)>>)>>)

(* (def! a (atom 5))  (swap! a (fun* (x) body))  (deref a)                  *)
(* (swap! a (fun* (x) (+ x 1)))  (deref a)                                 *)
SwapFailProgram(kind) ==
    <<L(<<S("def!"), S("a"), L(<<S("atom"), I(5)>>)>>),
      L(<<S("swap!"), S("a"), L(<<S("fun*"), L(<<S("x")>>), SwapFailBody(kind)>>)>>),
      DerefA,
      L(<<S("swap!"), S("a"), Fun1("+", 1)>>),
      DerefA>>

Programs ==
    {LetStarProgram, LetStarChainProgram, LexicalProgram, EmptyListProgram,
     NonFunctionProgram, DefProgram, EvalProgram, ShadowProgram}
    \cup {LetrecProgram(k) : k \in 0..MaxN}
    \cup {LetrecMutualProgram(k) : k \in 0..MaxN}
    \cup {LoopProgram(n) : n \in 0..MaxN}
    \cup {AtomProgram(ops) : ops \in AtomOpSeqs}
    \cup {EqProgram(x, y) : x, y \in EqOperands}
    \cup {DoProgram(n) : n \in 0..MaxDo}
    \cup {SwapFailProgram(kind) : kind \in SwapFailKinds}
    \cup {ArityProgram(n, m, j, g) :
              n \in 1..MaxArity, m \in 0..MaxArity, j \in 1..MaxArity, g \in BOOLEAN}

-----------------------------------------------------------------------------

Init ==
    /\ forms \in Programs
    /\ pc = 1
    /\ stack = <<>>
    /\ ret = NoRet
    /\ envs = <<create_root_env>>
    /\ atoms = <<>>
    /\ out = <<>>
    /\ aborted = FALSE
    /\ rd_value = NoValue
    /\ rd_text = <<>>
    /\ rd_i = 1
    /\ rd_state = TokenizerState(<<>>, <<>>, FALSE)
    /\ rd_parsed = NoRet
    /\ rpc = "idle"

Next ==
    \/ rep
    \/ main_print
    \/ eval_self
    \/ eval_symbol
    \/ eval_list_empty
    \/ eval_form_def
    \/ eval_form_def_insert
    \/ do_form_let
    \/ do_form_letrec
    \/ bind_let_insert
    \/ do_form_do
    \/ do_form_do_resume
    \/ do_form_if
    \/ do_form_if_resume
    \/ eval_form_fun
    \/ eval_form_eval
    \/ eval_form_eval_resume
    \/ eval_func_call
    \/ eval_func_call_fun
    \/ eval_all
    \/ swap_m_store
    \/ propagate

Spec == Init /\ [][Next]_vars

-----------------------------------------------------------------------------
(* Inputs of the reader: every text over Alphabet of at most MaxLen        *)
(* characters, and the values whose Debug text is read back.               *)

MaxLen == 3

Alphabet == {"'", "(", ")", " ", "a", "1"}

Texts == UNION {[1..n -> Alphabet] : n \in 0..MaxLen}

MaxInt == 12

Literals ==
    {Integer(n) : n \in (0 - MaxInt)..MaxInt}
    \cup {Boolean(b) : b \in BOOLEAN}
    \cup {String(t) : t \in Texts}

OtherValues ==
    {Nil, Symbol("ab"), Builtin("read-str"), Function(<<"x">>, Symbol("x"), RootEnv),
     List(<<>>), List(<<Integer(1), String(<<"a">>), List(<<Nil>>)>>)}

ReaderInit ==
    /\ forms = <<>>
    /\ pc = 1
    /\ stack = <<>>
    /\ ret = NoRet
    /\ envs = <<create_root_env>>
    /\ atoms = <<>>
    /\ out = <<>>
    /\ aborted = FALSE
    /\ rd_i = 1
    /\ rd_state = TokenizerState(<<>>, <<>>, FALSE)
    /\ rd_parsed = NoRet
    /\ \/ /\ rd_value \in Literals \cup OtherValues
          /\ rd_text = <<>>
          /\ rpc = "fmt"
       \/ /\ rd_value = NoValue
          /\ rd_text \in Texts
          /\ rpc = "tokenize"

ReaderNext ==
    \/ fmt_value
    \/ from_str_trim
    \/ tokenize_step
    \/ tokenize_end
    \/ from_str_parse

ReaderSpec == ReaderInit /\ [][ReaderNext]_vars

-----------------------------------------------------------------------------
(* Properties.  out[i] is the Result the driver printed for forms[i].       *)

Printed(i) == Len(out) >= i

(* C1: in (let* (n1 v1 n2 v2 ...) body) every vj sees the earlier ni bound  *)
(* to the value of vi: (let* (a 1 b (+ a 1)) b) evaluates to Integer 2, and *)
(* (let* (a 1 b (+ a 1) c (+ b a)) c) to Integer 3.                         *)
C1_LetStarSequential ==
    /\ (forms = LetStarProgram /\ Printed(1)) => out[1] = Ok(Integer(2))
    /\ (forms = LetStarChainProgram /\ Printed(1)) => out[1] = Ok(Integer(3))

(* C2: in letrec every vi is evaluated in the new environment, so a closure *)
(* resolves its own name and the other letrec names when applied: the       *)
(* countdown (f k) evaluates to Integer 1, and the mutually recursive       *)
(* (even k) to the parity of k.                                             *)
C2_LetrecSelfReference ==
    \A k \in 0..MaxN :
        /\ forms = LetrecProgram(k) =>
               ~aborted /\ (Printed(1) => out[1] = Ok(Integer(1)))
        /\ forms = LetrecMutualProgram(k) =>
               ~aborted /\ (Printed(1) => out[1] = Ok(Boolean(k % 2 = 0)))

C2_Witness ==
    /\ forms = LetrecProgram(3)
    /\ out = <<Ok(Integer(1))>>

(* C3: while (loop n) is evaluated at most 3 invocations of eval are        *)
(* active, whatever n is, and the result is Integer 0.                      *)
C3_TailCallBounded ==
    \A n \in 0..MaxN :
        forms = LoopProgram(n) =>
            /\ ~aborted
            /\ Len(stack) <= 3
            /\ Printed(2) => out[2] = Ok(Integer(0))

(* (loop 3) has returned 0 after four applications of the closure *)
C3_Witness ==
    /\ forms = LoopProgram(3)
    /\ Printed(2)
    /\ out[2] = Ok(Integer(0))
    /\ Len(envs) = 5

(* C4: the closure returned by (let* (x 1) (fun* () x)) evaluates to        *)
(* Integer 1 wherever it is applied: with x unbound, with x bound to 5 in    *)
(* the root, inside a let* binding x to 7, inside a closure with x = 9.     *)
C4_LexicalScoping ==
    forms = LexicalProgram =>
        /\ ~aborted
        /\ \A i \in {2, 4, 5, 6} : Printed(i) => out[i] = Ok(Integer(1))

C4_Witness ==
    /\ forms = LexicalProgram
    /\ Printed(6)
    /\ out[3] = Ok(Integer(5))
    /\ out[6] = Ok(Integer(1))

(* what the claim says the atom holds after ops, starting from 5 *)
RECURSIVE AtomValue(_)
AtomValue(ops) ==
    IF ops = <<>>
    THEN 5
    ELSE LET before == AtomValue(Front(ops))
             op == Last(ops)
         IN CASE op = "swap_a" -> before + 1
              [] op = "swap_b" -> before * 2
              [] op = "reset_a" -> 0
              [] op = "reset_b" -> 7

(* C5: after any sequence of swap! and reset! through either holder of the  *)
(* atom, deref returns what the most recent one stored; reset! returns the  *)
(* value, swap! the atom itself.                                            *)
C5_AtomMutation ==
    \A ops \in AtomOpSeqs :
        forms = AtomProgram(ops) =>
            /\ ~aborted
            /\ \A i \in 1..Len(ops) :
                 /\ Printed(2 * i + 1) =>
                        out[2 * i + 1] =
                            Ok(IF ops[i] \in {"swap_a", "swap_b"}
                               THEN Atom(1)
                               ELSE Integer(AtomValue(SubSeq(ops, 1, i))))
                 /\ Printed(2 * i + 2) =>
                        out[2 * i + 2] = Ok(Integer(AtomValue(SubSeq(ops, 1, i))))

(* (swap! a inc) (deref a) gave 6, then (reset! b 7) (deref a) gave 7 *)
C5_Witness ==
    /\ forms = AtomProgram(<<"swap_a", "reset_b">>)
    /\ Printed(6)
    /\ out[4] = Ok(Integer(6))
    /\ out[6] = Ok(Integer(7))

(* C6: evaluating the empty list, or (1 2), returns an Err to the driver,   *)
(* which goes on with the next form; the process does not abort.            *)
C6_NotCallableIsError ==
    forms \in {EmptyListProgram, NonFunctionProgram} =>
        /\ ~aborted
        /\ Printed(1) => out[1].tag = "Err"

(* the value an operand of EqOperands evaluates to *)
RECURSIVE EqValue(_)
EqValue(x) ==
    IF x.tag = "List"
    THEN List([i \in 1..(Len(x.xs) - 1) |-> EqValue(x.xs[i + 1])])
    ELSE x

(* structural equality as the claim states it *)
RECURSIVE StructEq(_, _)
StructEq(x, y) ==
    IF x.tag # y.tag
    THEN FALSE
    ELSE CASE x.tag = "Integer" -> x.n = y.n
           [] x.tag = "Boolean" -> x.b = y.b
           [] x.tag = "String" -> x.str = y.str
           [] x.tag = "List" ->
                /\ Len(x.xs) = Len(y.xs)
                /\ \A i \in 1..Len(x.xs) : StructEq(x.xs[i], y.xs[i])

(* C7: (= x y) is Boolean(false) for different tags, value equality for    *)
(* two Integers, Booleans or Strings, and recursive element equality with  *)
(* equal length for two lists.                                              *)
C7_StructuralEquality ==
    \A x, y \in EqOperands :
        (forms = EqProgram(x, y) /\ Printed(1)) =>
            out[1] = Ok(Boolean(StructEq(EqValue(x), EqValue(y))))

(* the number whose decimal digits are 1 .. n *)
RECURSIVE DigitsUpTo(_)
DigitsUpTo(n) == IF n = 0 THEN 0 ELSE DigitsUpTo(n - 1) * 10 + n

(* C8: (do e1 .. en) evaluates e1 .. e(n-1) once each, in order, and has    *)
(* the value of en; (do) evaluates to Nil.                                  *)
C8_DoSequence ==
    \A n \in 0..MaxDo :
        forms = DoProgram(n) =>
            /\ ~aborted
            /\ Printed(2) => out[2] = Ok(IF n = 0 THEN Nil ELSE Integer(DigitsUpTo(n)))
            /\ Printed(3) => out[3] = Ok(Integer(DigitsUpTo(n)))

RECURSIVE ProperAncestors(_, _)
ProperAncestors(env, heap) ==
    IF heap[env].parent = NoParent
    THEN {}
    ELSE {heap[env].parent} \cup ProperAncestors(heap[env].parent, heap)

(* C9: def! evaluates its expression in the current environment, inserts   *)
(* or overwrites the name in the current frame only and returns the bound  *)
(* value; every other frame is unchanged, and the name resolves as before  *)
(* in every enclosing environment.                                          *)
C9_DefBindsCurrentFrame ==
    [][/\ (AtForm("def!") /\ stack' # <<>> /\ Len(stack') > Len(stack)) =>
             stack'[Len(stack')] = Frame(Last(Top.ast.xs), Top.env)
       /\ Resuming("eval_form_def") =>
             /\ ret' = Ok(ret.v)
             /\ Len(envs') = Len(envs)
             /\ envs'[Top.env].values = insert(envs[Top.env].values, Top.k.name, ret.v)
             /\ \A e \in 1..Len(envs) : e # Top.env => envs'[e] = envs[e]
             /\ \A e \in ProperAncestors(Top.env, envs) :
                    lookup(Top.k.name, e, envs') = lookup(Top.k.name, e, envs)]_vars

(* x was defined in a let* body, a closure body and a letrec body, and the *)
(* root's x stayed 1 until the root's own def! *)
C9_Witness ==
    /\ forms = DefProgram
    /\ Printed(9)
    /\ out[2] = Ok(Integer(3))
    /\ out[3] = Ok(Integer(1))
    /\ out[5] = Ok(Integer(1))
    /\ out[7] = Ok(Integer(1))
    /\ out[9] = Ok(Integer(6))

(* C10: (eval expr) evaluates expr in the current environment and the      *)
(* result in the root: a symbol read inside let* or closure frames that    *)
(* shadow x resolves to the root's x = 1, a symbol bound only locally is   *)
(* unresolved, and (list + x 1) is built from the local x = 2.              *)
C10_EvalInRoot ==
    forms = EvalProgram =>
        /\ ~aborted
        /\ \A i \in {2, 3, 4} : Printed(i) => out[i] = Ok(Integer(1))
        /\ Printed(5) => out[5] = Err(SymbolUndefined("y"))
        /\ Printed(6) => out[6] = Ok(Integer(3))

C10_Witness ==
    /\ forms = EvalProgram
    /\ Printed(6)
    /\ out[4] = Ok(Integer(1))
    /\ out[5] = Err(SymbolUndefined("y"))
    /\ out[6] = Ok(Integer(3))

(* C11: for every Integer, String or Boolean v, reading back the Debug     *)
(* text of v gives v: parse(print(v)) = v.                                  *)
C11_RoundTrip ==
    (rpc = "done" /\ rd_value.tag \in {"Integer", "String", "Boolean"}) =>
        rd_parsed = Ok(rd_value)

(* the frame bind_fn builds for n parameters and m arguments *)
ArityFrame(n, m) ==
    Environment([p \in {ParamName(k) : k \in 1..n} \cap {ParamName(k) : k \in 1..m} |->
                    Integer(10 * (CHOOSE k \in 1..n : ParamName(k) = p))],
                RootEnv)

(* C12 as stated: a closure of n parameters applied to m arguments binds   *)
(* the first min(n, m) parameters positionally and nothing else, without   *)
(* an arity error; a reference to parameter j is the j-th argument when    *)
(* j <= m and fails with SymbolUndefined(pj) when j > m.                    *)
C12_MissingAlwaysFails ==
    \A n \in 1..MaxArity, m \in 0..MaxArity, j \in 1..MaxArity, g \in BOOLEAN :
        (forms = ArityProgram(n, m, j, g) /\ j <= n) =>
            /\ ~aborted
            /\ Printed(2) =>
                   /\ envs[2] = ArityFrame(n, m)
                   /\ out[2] = IF j <= m
                               THEN Ok(Integer(10 * j))
                               ELSE Err(SymbolUndefined(ParamName(j)))

(* C12 amended: as above, but a reference to a parameter without argument  *)
(* is looked up in the closure's captured environment chain: it fails with *)
(* SymbolUndefined(pj) only when no enclosing frame binds pj, and is the    *)
(* enclosing binding (99) otherwise.                                        *)
C12_ArityUnchecked ==
    \A n \in 1..MaxArity, m \in 0..MaxArity, j \in 1..MaxArity, g \in BOOLEAN :
        (forms = ArityProgram(n, m, j, g) /\ j <= n) =>
            /\ ~aborted
            /\ Printed(2) =>
                   /\ envs[2] = ArityFrame(n, m)
                   /\ out[2] = IF j <= m
                               THEN Ok(Integer(10 * j))
                               ELSE IF g
                                    THEN Ok(Integer(99))
                                    ELSE Err(SymbolUndefined(ParamName(j)))

(* a closure of two parameters applied to one argument referred to its     *)
(* second parameter                                                        *)
C12_Witness ==
    /\ forms = ArityProgram(2, 1, 2, FALSE)
    /\ Printed(2)
    /\ envs[2] = Environment([p \in {"p1"} |-> Integer(10)], RootEnv)
    /\ out[2] = Err(SymbolUndefined("p2"))

(* the frames from env outward to the parentless root, innermost first *)
RECURSIVE EnvChain(_, _)
EnvChain(env, heap) ==
    IF heap[env].parent = NoParent
    THEN <<env>>
    ELSE <<env>> \o EnvChain(heap[env].parent, heap)

(* the positions in EnvChain of the frames that bind name *)
Binders(name, env, heap) ==
    {k \in 1..Len(EnvChain(env, heap)) : name \in DOMAIN heap[EnvChain(env, heap)[k]].values}

Innermost(ks) == CHOOSE k \in ks : \A j \in ks : k <= j

(* C13: every evaluation of a symbol returns the binding of the innermost  *)
(* frame of the environment chain that binds the name, and fails with      *)
(* SymbolUndefined carrying exactly that name when no frame up to the       *)
(* root binds it; so inner bindings shadow outer ones and a never-bound     *)
(* zzz fails with SymbolUndefined("zzz").                                   *)
C13_LookupInnermost ==
    /\ [](forms = ShadowProgram =>
            /\ ~aborted
            /\ Printed(2) => out[2] = Ok(Integer(3))
            /\ Printed(3) => out[3] = Ok(Integer(2))
            /\ Printed(4) => out[4] = Ok(Integer(1))
            /\ Printed(5) => out[5] = Err(SymbolUndefined("zzz"))
            /\ Printed(6) => out[6] = Err(SymbolUndefined("zzz"))
            /\ Printed(7) => out[7] = Ok(Integer(7)))
    /\ [][(Dispatching /\ Top.ast.tag = "Symbol") =>
             LET name == Top.ast.s
                 ks == Binders(name, Top.env, envs)
             IN ret' = IF ks = {}
                       THEN Err(SymbolUndefined(name))
                       ELSE Ok(envs[EnvChain(Top.env, envs)[Innermost(ks)]].values[name])]_vars

(* x was resolved through two shadowing frames and zzz through none *)
C13_Witness ==
    /\ forms = ShadowProgram
    /\ Printed(7)
    /\ out[2] = Ok(Integer(3))
    /\ out[5] = Err(SymbolUndefined("zzz"))

(* tokenize is about to take character rd_text[rd_i] *)
AtChar == rpc = "tokenize" /\ rd_i <= Len(rd_text)

(* quoting ends in this step: at a closing quote, or at the end of input   *)
(* inside an unterminated quote                                            *)
QuotingEnds ==
    /\ rpc = "tokenize"
    /\ rd_state.quoting
    /\ rd_i <= Len(rd_text) => rd_text[rd_i] = "'"

(* C14: every quote character toggles quoting (an opening quote starts an  *)
(* empty text); while quoting, every other character, parentheses and      *)
(* whitespace included, is appended to the text and adds no token; when    *)
(* quoting ends, at the closing quote or at the end of input, exactly one  *)
(* String token holding the accumulated text is emitted, whatever the text *)
(* is (digits only, or empty).                                             *)
C14_StringMode ==
    [][/\ (AtChar /\ rd_text[rd_i] = "'") =>
             /\ rd_state'.quoting = ~rd_state.quoting
             /\ rd_state'.buffer = <<>>
       /\ (AtChar /\ rd_state.quoting /\ rd_text[rd_i] # "'") =>
             /\ rd_state'.buffer = Append(rd_state.buffer, rd_text[rd_i])
             /\ rd_state'.tokens = rd_state.tokens
             /\ rd_state'.quoting
       /\ QuotingEnds =>
             /\ Len(rd_state'.tokens) = Len(rd_state.tokens) + 1
             /\ Front(rd_state'.tokens) = rd_state.tokens
             /\ Last(rd_state'.tokens)[2] = TokString(rd_state.buffer)]_vars

(* the error of SwapFailBody(kind) and what the body itself left in a *)
SwapFailError(kind) ==
    IF kind \in {"undefined", "reset"}
    THEN SymbolUndefined("zzz")
    ELSE TypeMismatch("+", 2, "Integer", String(<<"a">>))

SwapFailContents(kind) ==
    CASE kind \in {"undefined", "type"} -> 5
      [] kind = "reset" -> 9
      [] kind = "nested" -> 6

(* C15: when the closure body of a swap! fails, the swap! writes nothing:  *)
(* the Err reaches the caller of swap! unchanged with the cells as they    *)
(* were when the body failed, so the atom holds what it held before the    *)
(* swap! (5) unless the body itself wrote it (9, 6), the driver prints the  *)
(* body's error, and a later swap! works on those contents.                 *)
C15_SwapAllOrNothing ==
    /\ [](\A kind \in SwapFailKinds :
             forms = SwapFailProgram(kind) =>
                 /\ ~aborted
                 /\ Printed(2) => out[2] = Err(SwapFailError(kind))
                 /\ Printed(3) => out[3] = Ok(Integer(SwapFailContents(kind)))
                 /\ Printed(5) => out[5] = Ok(Integer(SwapFailContents(kind) + 1)))
    /\ [][(~aborted /\ stack # <<>> /\ ret.tag = "Err" /\ Top.k.at = "swap_m") =>
             /\ atoms' = atoms
             /\ ret' = ret
             /\ stack' = Front(stack)]_vars

(* a swap! whose body failed on a type error left 5 in the atom, and the   *)
(* next swap! made it 6                                                    *)
C15_Witness ==
    /\ forms = SwapFailProgram("type")
    /\ Printed(5)
    /\ out[2] = Err(TypeMismatch("+", 2, "Integer", String(<<"a">>)))
    /\ out[3] = Ok(Integer(5))
    /\ out[5] = Ok(Integer(6))

====
